---- MODULE Spec2Model ----
(***************************************************************************)
(* Model of the physical texture library (texture.h): a Texture struct     *)
(* {uint16_t w, h; uint32_t *data}, two initializers, a CSV writer, a CSV  *)
(* reader and a release function, together with the heap and the files     *)
(* they act on.                                                            *)
(*                                                                         *)
(* Number representation.  TLC's integers are 32-bit signed, which is      *)
(* exactly the C type int of the build (ILP32/LP64).  A uint32_t does not  *)
(* fit, so every uint32_t is a pair <<hi, lo>> of 16-bit limbs:            *)
(* value = hi * 65536 + lo.  UINT32_MAX is <<65535, 65535>>.               *)
(* The build modelled has assertions enabled (NDEBUG not defined) and a    *)
(* 64-bit size_t.                                                          *)
(***************************************************************************)
EXTENDS Integers, Sequences, FiniteSets, TLC

(***************************************************************************)
(* Bounds of the model.                                                    *)
(***************************************************************************)
\* The callers pass every pair of extents in 0..MaxDim (and two fixed shapes).
MaxDim == 1
\* The heap can satisfy a request of at most MaxElems uint32_t elements.
MaxElems == 4
\* The heap has room for MaxAllocs blocks over a run.
MaxAllocs == 2

(***************************************************************************)
(* Machine constants.                                                      *)
(***************************************************************************)
\* 2^16: one more than the largest uint16_t; the limb base.
Limb == 65536
\* 2^15: an int product whose high limb reaches this has left int's range.
IntSignLimb == 32768
\* 2^24: a float has a 24-bit significand.
FloatMant == 16777216

U32(hi, lo) == <<hi, lo>>
UINT32_MAX == U32(Limb - 1, Limb - 1)
\* An element of a malloc'ed buffer that was never written.
Indet == <<-1, -1>>

RECURSIVE Pow2(_)
Pow2(k) == IF k = 0 THEN 1 ELSE 2 * Pow2(k - 1)

(***************************************************************************)
(* Decimal text.  A file is a sequence of one-character strings.           *)
(***************************************************************************)
DigitChars == <<"0", "1", "2", "3", "4", "5", "6", "7", "8", "9">>
Comma == ","
IsDigit(c) == \E d \in 1..10 : DigitChars[d] = c
DigitVal(c) == (CHOOSE d \in 1..10 : DigitChars[d] = c) - 1

\* printf("%u") of the uint32_t <<hi, lo>>: long division by ten, limb by limb.
RECURSIVE FormatU32(_)
FormatU32(v) ==
  IF v[1] = 0 /\ v[2] < 10 THEN <<DigitChars[v[2] + 1]>>
  ELSE LET r == v[1] % 10
           t == r * Limb + v[2]
       IN Append(FormatU32(U32(v[1] \div 10, t \div 10)), DigitChars[(t % 10) + 1])

\* printf("%hu") of a uint16_t.
FormatU16(x) == FormatU32(U32(0, x))

\* The digits a scanf conversion consumes: the longest prefix of digits.
RECURSIVE DigitPrefixLen(_)
DigitPrefixLen(s) ==
  IF s = <<>> \/ ~IsDigit(Head(s)) THEN 0 ELSE 1 + DigitPrefixLen(Tail(s))

\* Accumulating a decimal number: acc * 10 + d on limbs; ovf once it passes 2^32.
AccDigit(acc, d) ==
  LET t == acc.v[2] * 10 + d
      h == acc.v[1] * 10 + (t \div Limb)
  IN [v |-> U32(h % Limb, t % Limb), ovf |-> acc.ovf \/ h >= Limb]

RECURSIVE AccDigits(_, _)
AccDigits(acc, s) ==
  IF s = <<>> THEN acc ELSE AccDigits(AccDigit(acc, DigitVal(Head(s))), Tail(s))

\* One scanf "%u" / "%hu" directive on the stream s (the model's files hold no
\* white space and no sign): ok is FALSE on end of file or when the next
\* character is no digit, and then nothing is consumed and nothing is stored.
ScanUnsigned(s) ==
  LET n == DigitPrefixLen(s)
      a == AccDigits([v |-> U32(0, 0), ovf |-> FALSE], SubSeq(s, 1, n))
  IN [ok |-> n > 0, v |-> a.v, ovf |-> a.ovf, rest |-> SubSeq(s, n + 1, Len(s))]

\* A literal "," in a scanf format: consumed when present; ok is FALSE otherwise.
ScanComma(s) ==
  IF s # <<>> /\ Head(s) = Comma THEN [ok |-> TRUE, rest |-> Tail(s)]
  ELSE [ok |-> FALSE, rest |-> s]

(***************************************************************************)
(* float.  A float value is [m, e], standing for m * 2^e, with m <= 2^24.  *)
(***************************************************************************)
\* Rounding an exact m * 2^e to a 24-bit significand, to nearest, ties to even.
RoundFloat(m, e) ==
  IF m <= FloatMant THEN [m |-> m, e |-> e]
  ELSE LET s == CHOOSE k \in 1..8 : m \div Pow2(k) < FloatMant
                                    /\ (k = 1 \/ m \div Pow2(k - 1) >= FloatMant)
           q == m \div Pow2(s)
           r == m % Pow2(s)
           half == Pow2(s - 1)
           up == r > half \/ (r = half /\ q % 2 = 1)
       IN [m |-> IF up THEN q + 1 ELSE q, e |-> e + s]

\* (float)u for a uint32_t u (the usual arithmetic conversion of UINT32_MAX).
U32ToFloat(u) ==
  IF u[1] < 256 THEN [m |-> u[1] * Limb + u[2], e |-> 0]
  ELSE LET s == CHOOSE k \in 1..8 : u[1] < Pow2(8 + k) /\ (k = 1 \/ u[1] >= Pow2(7 + k))
           q == u[1] * Pow2(16 - s) + (u[2] \div Pow2(s))
           r == u[2] % Pow2(s)
           half == Pow2(s - 1)
           up == r > half \/ (r = half /\ q % 2 = 1)
       IN [m |-> IF up THEN q + 1 ELSE q, e |-> s]

\* a * b in float arithmetic.
FloatMul(a, b) == RoundFloat(a.m * b.m, a.e + b.e)

\* Doubling a limb pair k times; ovf when the value passes 2^32.
RECURSIVE ShiftLeft(_, _)
ShiftLeft(x, k) ==
  IF k = 0 THEN x
  ELSE LET l == x.v[2] * 2
           h == x.v[1] * 2 + (l \div Limb)
       IN ShiftLeft([v |-> U32(h % Limb, l % Limb), ovf |-> x.ovf \/ h >= Limb], k - 1)

\* The integral part of the float f (truncation toward zero) as limbs; ovf when
\* it cannot be represented in uint32_t.
FloatTrunc(f) ==
  IF f.e < 0
  THEN LET q == f.m \div Pow2(-f.e) IN [v |-> U32(q \div Limb, q % Limb), ovf |-> FALSE]
  ELSE ShiftLeft([v |-> U32(f.m \div Limb, f.m % Limb), ovf |-> FALSE], f.e)

\* (uint32_t)f.  Out of range the conversion is undefined (C11 6.3.1.4): the
\* builds in use give 0 (x86-64: the low 32 bits of a 64-bit conversion) or
\* saturate to UINT32_MAX (AArch64, and constant folding).
OutOfRangeCasts == {U32(0, 0), UINT32_MAX}
FloatToU32(f) ==
  LET t == FloatTrunc(f) IN IF t.ovf THEN OutOfRangeCasts ELSE {t.v}

(***************************************************************************)
(* The element count w * h.                                                *)
(***************************************************************************)
\* The mathematical product of two uint16_t values, as limbs.
ProductLimbs(w, h) ==
  LET a == w * (h \div 256)
      b == w * (h % 256)
      s == (a % 256) * 256 + b
  IN U32((a \div 256) + (s \div Limb), s % Limb)

\* The C expression `w * h` on two uint16_t operands: both are promoted to int
\* and multiplied in int.  A product that leaves int's range is undefined
\* behaviour (signed overflow): the builds in use wrap in two's complement or
\* trap (-ftrapv, -fsanitize).  The set of outcomes [trap, v].
ElemCount(w, h) ==
  LET p == ProductLimbs(w, h)
  IN IF p[1] < IntSignLimb
     THEN {[trap |-> FALSE, v |-> p[1] * Limb + p[2]]}
     ELSE {[trap |-> FALSE, v |-> (p[1] - Limb) * Limb + p[2]], [trap |-> TRUE, v |-> 0]}

\* `i < w * h` with i a size_t: the int is converted to size_t, so a negative
\* count becomes a value of at least 2^63, above every index.
IndexBelow(i, n) == n < 0 \/ i < n

(***************************************************************************)
(* State.                                                                  *)
(***************************************************************************)
VARIABLES
  tex,     \* the Texture objects: tex[t] = [w, h, data], data a pointer
  heap,    \* the blocks handed out so far: heap[a] = [live, mem]; a is the address
  files,   \* the file at each path that can be opened: [exists, text]
  libc,    \* the allocator: [room, zeroNull]
  status,  \* "running", "aborted" (a failed assert) or "ub" (undefined behaviour hit)
  call     \* the last call made: its arguments and what it met

vars == <<tex, heap, files, libc, status, call>>

\* The Texture objects of a caller are the domain of tex.
Textures == DOMAIN tex
\* "bad" names a path fopen cannot open in either mode.
FilePaths == {"p"}
Paths == FilePaths \cup {"bad"}

NULL == 0
\* The data pointer of a Texture with automatic storage that was never set.
Wild == -1
Addrs == 1..Len(heap)
Live(a) == a \in Addrs /\ heap[a].live

Empty(t) == tex[t].data = NULL
Populated(t) == Live(tex[t].data)

\* The extents the callers pass: the small ones, the 2 x 2 of the README's
\* tests, and the largest uint16_t with itself, whose product leaves int.
DimPairs == ((0..MaxDim) \X (0..MaxDim)) \cup {<<2, 2>>, <<Limb - 1, Limb - 1>>}
\* Fields a never-initialised Texture may hold.
GarbDims == {0, 2}
FreshTextures ==
  {[w |-> 0, h |-> 0, data |-> NULL]}
    \cup {[w |-> gw, h |-> gh, data |-> Wild] : gw \in GarbDims, gh \in GarbDims}

Text(str) == [exists |-> TRUE, text |-> str]
NoFile == [exists |-> FALSE, text |-> <<>>]
\* What the path may hold before the library touches it: nothing, a record
\* with fewer data fields than its header announces, one with more.
InitFiles ==
  { NoFile,
    Text(<<"2", ",", "2", ",", "7", ",">>),
    Text(<<"1", ",", "2", ",", "7", ",", "8", ",", "9", ",">>) }

\* The callers' sample arrays: the windows of length n over a cycle of values,
\* starting at the first and at the third.
Windows(base, n) ==
  { [i \in 1..n |-> base[((k + i - 2) % Len(base)) + 1]] : k \in {1, 3} }
IntBase == <<U32(0, 0), UINT32_MAX, U32(32767, 65535), U32(16383, 65535)>>
\* 0.0, 1.0, 0.5, 0.25, 0.75
FloatBase == <<[m |-> 0, e |-> 0], [m |-> 1, e |-> 0], [m |-> 1, e |-> -1],
               [m |-> 1, e |-> -2], [m |-> 3, e |-> -2]>>
\* An array longer than the heap can hold is never read (the allocation fails
\* first); it is left out of the model.
Arrays(base, w, h) ==
  LET p == ProductLimbs(w, h)
  IN IF p[1] = 0 /\ p[2] <= MaxElems THEN Windows(base, p[2]) ELSE {<<>>}

NoCall ==
  [op |-> "none", t |-> "T", w |-> 0, h |-> 0, path |-> "p", ints |-> <<>>,
   floats |-> <<>>, n |-> 0, old |-> NULL, fail |-> "none"]

\* A caller with one Texture object.
Init ==
  /\ tex \in [{"T"} -> FreshTextures]
  /\ heap = <<>>
  /\ files \in [FilePaths -> InitFiles]
  /\ libc \in [room : 0..MaxAllocs, zeroNull : BOOLEAN]
  /\ status = "running"
  /\ call = NoCall

(***************************************************************************)
(* The allocator and assert.                                               *)
(***************************************************************************)
\* calloc(n, 4) / malloc(n * 4) with n converted to size_t.  The allocator has
\* room for libc.room more blocks of at most MaxElems elements and returns NULL
\* when a request does not fit; a negative n converts to at least 2^63
\* elements, which never fits.  What a zero-size request returns is
\* implementation-defined: NULL (libc.zeroNull) or a block of no elements.
Allocate(n) ==
  IF n = 0 /\ libc.zeroNull THEN NULL
  ELSE IF n >= 0 /\ n <= MaxElems /\ libc.room > 0 THEN Len(heap) + 1
  ELSE NULL

\* The allocator after answering a request with p.
Allocated(p) == IF p = NULL THEN libc ELSE [libc EXCEPT !.room = @ - 1]

\* texture->data = <new block> while it held d: the block at d is not freed; it
\* stays allocated with nothing pointing to it.  No later step can read it, and
\* the model forgets its contents.
Orphan(hp, d) ==
  IF d \in 1..Len(hp) /\ hp[d].live THEN [hp EXCEPT ![d].mem = <<>>] ELSE hp

\* Mutant: the assertion is compiled out.
AssertOff(cond) == "running"

\* assert(cond): the process goes on when cond holds and aborts otherwise.
AssertStatus(cond) == IF cond THEN "running" ELSE "aborted"

\* What calloc hands out: n elements of zero.
ZeroBlock(n) == [i \in 1..n |-> U32(0, 0)]
\* Mutant: the buffer is zero-filled (calloc in place of malloc).
RawBlockZeroed(n) == [i \in 1..n |-> U32(0, 0)]

\* What malloc hands out: n elements never written.
RawBlock(n) == [i \in 1..n |-> Indet]

(***************************************************************************)
(* initTexture_f and initTexture_i.                                        *)
(***************************************************************************)
\* (uint32_t)(UINT32_MAX * data[i]): UINT32_MAX is converted to float, the
\* product is a float, the cast truncates.  The set of values a build can store.
ScaleSample(f) == FloatToU32(FloatMul(U32ToFloat(UINT32_MAX), f))

\* The arrays of scaled samples a build can produce from the array data.
RECURSIVE ScaledArrays(_)
ScaledArrays(data) ==
  IF data = <<>> THEN {<<>>}
  ELSE {<<x>> \o r : x \in ScaleSample(Head(data)), r \in ScaledArrays(Tail(data))}

\* Mutant: the loop stops one element early (i + 1 < w * h).
FillShort(block, vals, n) ==
  [i \in 1..Len(block) |-> IF IndexBelow(i, n) THEN vals[i] ELSE block[i]]

\* for (i = 0; i < w * h; ++i) block[i] = vals[i], on a block of the heap.
Fill(block, vals, n) ==
  [i \in 1..Len(block) |-> IF IndexBelow(i - 1, n) THEN vals[i] ELSE block[i]]

\* The body shared by the two initializers once the values to store are known:
\* w and h are stored, the count is evaluated (c), the buffer allocated (p),
\* the allocation asserted, the buffer filled.
Construct(t, w, h, c, p, vals, rec) ==
  IF c.trap
  THEN /\ tex' = [tex EXCEPT ![t] = [w |-> w, h |-> h, data |-> @.data]]
       /\ heap' = heap
       /\ libc' = libc
       /\ status' = "ub"
       /\ call' = [rec EXCEPT !.fail = "trap"]
  ELSE /\ tex' = [tex EXCEPT ![t] = [w |-> w, h |-> h, data |-> p]]
       /\ libc' = Allocated(p)
       /\ heap' = IF p = NULL THEN heap
                  ELSE Append(Orphan(heap, tex[t].data),
                              [live |-> TRUE, mem |-> Fill(ZeroBlock(c.v), vals, c.v)])
       /\ status' = AssertStatus(p # NULL)
       /\ call' = [rec EXCEPT !.n = c.v, !.fail = IF p = NULL THEN "alloc" ELSE "none"]

initTexture_f(t, w, h, data) ==
  /\ status = "running"
  /\ files' = files
  /\ \E c \in ElemCount(w, h) : \E vals \in ScaledArrays(data) :
       Construct(t, w, h, c, Allocate(c.v), vals,
                 [NoCall EXCEPT !.op = "init_f", !.t = t, !.w = w, !.h = h,
                                !.floats = data, !.old = tex[t].data])

initTexture_i(t, w, h, data) ==
  /\ status = "running"
  /\ files' = files
  /\ \E c \in ElemCount(w, h) :
       Construct(t, w, h, c, Allocate(c.v), data,
                 [NoCall EXCEPT !.op = "init_i", !.t = t, !.w = w, !.h = h,
                                !.ints = data, !.old = tex[t].data])

(***************************************************************************)
(* writeTexture.                                                           *)
(***************************************************************************)
\* fopen(path, mode) succeeds: the path can be opened and, to read, the file exists.
CanOpen(path, mode) ==
  path \in FilePaths /\ (mode = "w" \/ files[path].exists)

\* Mutant: the file is opened in append mode ("a").
AppendMode(f) == Text(f.text)

\* fopen(path, "w") on a path that opens: the file exists and is empty.
Truncated(f) == Text(<<>>)

\* fprintf(fp, "%hu,%hu,", w, h)
HeaderText(w, h) == FormatU16(w) \o <<Comma>> \o FormatU16(h) \o <<Comma>>

\* Mutant: the element is printed with "%hu,", its low 16 bits.
FieldTextShort(v) == FormatU16(v[2]) \o <<Comma>>

\* fprintf(fp, "%u,", v)
FieldText(v) == FormatU32(v) \o <<Comma>>

RECURSIVE DataText(_)
DataText(vals) ==
  IF vals = <<>> THEN <<>> ELSE FieldText(Head(vals)) \o DataText(Tail(vals))

\* Reading an element that was never written gives an unspecified value.
GarbageVals == {U32(0, 0), U32(57005, 48879)}
ReadElem(v) == IF v = Indet THEN GarbageVals ELSE {v}
RECURSIVE Observations(_)
Observations(mem) ==
  IF mem = <<>> THEN {<<>>}
  ELSE {<<x>> \o r : x \in ReadElem(Head(mem)), r \in Observations(Tail(mem))}

\* What writeTexture can do once the file is open: [status, fail, n, text].  The loop
\* reads data[0..n-1]; through a pointer that is no live block of at least n
\* elements that is undefined, and what reached the file is the header or nothing.
WriteOutcomes(t) ==
  LET w == tex[t].w
      h == tex[t].h
      d == tex[t].data
      broken(c) == {[status |-> "ub", fail |-> IF c.trap THEN "trap" ELSE "ub",
                     n |-> c.v, text |-> x] : x \in {<<>>, HeaderText(w, h)}}
      done(c, vals) == [status |-> "running", fail |-> "none", n |-> c.v,
                        text |-> HeaderText(w, h) \o DataText(vals)]
  IN UNION { IF c.trap THEN broken(c)
             ELSE IF c.v = 0 THEN {done(c, <<>>)}
             ELSE IF ~Live(d) \/ c.v < 0 \/ c.v > Len(heap[d].mem) THEN broken(c)
             ELSE {done(c, vals) : vals \in Observations(SubSeq(heap[d].mem, 1, c.v))}
           : c \in ElemCount(w, h) }

writeTexture(t, path) ==
  /\ status = "running"
  /\ tex' = tex
  /\ heap' = heap
  /\ libc' = libc
  /\ LET rec == [NoCall EXCEPT !.op = "write", !.t = t, !.path = path,
                               !.w = tex[t].w, !.h = tex[t].h, !.old = tex[t].data]
     IN IF ~CanOpen(path, "w")
        THEN /\ status' = AssertStatus(FALSE)
             /\ files' = files
             /\ call' = [rec EXCEPT !.fail = "fopen"]
        ELSE \E o \in WriteOutcomes(t) :
               /\ status' = o.status
               /\ files' = [files EXCEPT ![path] =
                              [Truncated(@) EXCEPT !.text = @ \o o.text]]
               /\ call' = [rec EXCEPT !.fail = o.fail, !.n = o.n]

(***************************************************************************)
(* readTexture.                                                            *)
(***************************************************************************)
\* fscanf(fp, "%hu,%hu,", &w, &h) on the stream s, w0 and h0 being the fields'
\* values before: a directive that fails ends the call and stores nothing more.
ScanHeader(s, w0, h0) ==
  LET a == ScanUnsigned(s)
      ca == ScanComma(a.rest)
      b == ScanUnsigned(ca.rest)
      cb == ScanComma(b.rest)
      bad(x) == x.ovf \/ x.v[1] # 0
  IN IF ~a.ok THEN [w |-> w0, h |-> h0, rest |-> s, ovf |-> FALSE]
     ELSE IF ~ca.ok THEN [w |-> a.v[2], h |-> h0, rest |-> a.rest, ovf |-> bad(a)]
     ELSE IF ~b.ok THEN [w |-> a.v[2], h |-> h0, rest |-> ca.rest, ovf |-> bad(a)]
     ELSE [w |-> a.v[2], h |-> b.v[2], rest |-> cb.rest, ovf |-> bad(a) \/ bad(b)]

\* for (i = 0; i < size; ++i) fscanf(fp, "%u,", &data[i]), from index i on.
RECURSIVE ScanData(_, _, _, _)
ScanData(block, i, n, s) ==
  IF ~IndexBelow(i, n) \/ i >= Len(block) THEN [mem |-> block, ovf |-> FALSE]
  ELSE LET a == ScanUnsigned(s)
           nxt == IF a.ok THEN ScanData([block EXCEPT ![i + 1] = a.v], i + 1, n,
                                        ScanComma(a.rest).rest)
                  ELSE ScanData(block, i + 1, n, s)
       IN [mem |-> nxt.mem, ovf |-> nxt.ovf \/ (a.ok /\ a.ovf)]

readTexture(t, path) ==
  /\ status = "running"
  /\ files' = files
  /\ LET rec == [NoCall EXCEPT !.op = "read", !.t = t, !.path = path,
                               !.old = tex[t].data]
     IN IF ~CanOpen(path, "r")
        THEN /\ status' = AssertStatus(FALSE)
             /\ tex' = tex
             /\ heap' = heap
             /\ libc' = libc
             /\ call' = [rec EXCEPT !.fail = "fopen"]
        ELSE LET hd == ScanHeader(files[path].text, tex[t].w, tex[t].h)
             IN \E c \in ElemCount(hd.w, hd.h) :
                  LET p == Allocate(c.v)
                      got == ScanData(RawBlock(IF p = NULL THEN 0 ELSE c.v), 0, c.v, hd.rest)
                      undef == c.trap \/ hd.ovf \/ got.ovf
                  IN /\ tex' = [tex EXCEPT ![t] =
                                  [w |-> hd.w, h |-> hd.h,
                                   data |-> IF c.trap THEN @.data ELSE p]]
                     /\ libc' = IF c.trap THEN libc ELSE Allocated(p)
                     /\ heap' = IF c.trap \/ p = NULL THEN heap
                                ELSE Append(Orphan(heap, tex[t].data),
                                            [live |-> TRUE, mem |-> got.mem])
                     /\ status' = IF c.trap \/ hd.ovf THEN "ub"
                                  ELSE IF AssertStatus(p # NULL) # "running"
                                  THEN AssertStatus(p # NULL)
                                  ELSE IF got.ovf THEN "ub" ELSE "running"
                     /\ call' = [rec EXCEPT !.w = hd.w, !.h = hd.h, !.n = c.v,
                                   !.fail = IF c.trap THEN "trap"
                                            ELSE IF hd.ovf THEN "ub"
                                            ELSE IF p = NULL THEN "alloc"
                                            ELSE IF got.ovf THEN "ub" ELSE "none"]

(***************************************************************************)
(* freeTexture.                                                            *)
(***************************************************************************)
\* Mutant: the block is not released.
ReleaseNoop(hp, d) == hp

\* free(d) on the heap hp: nothing for NULL; a live block is released.
Release(hp, d) ==
  IF d \in 1..Len(hp) /\ hp[d].live
  THEN [hp EXCEPT ![d] = [live |-> FALSE, mem |-> <<>>]]
  ELSE hp

\* free(d) is defined for NULL and for a live block only.
FreeDefined(d) == d = NULL \/ Live(d)

\* Mutant: the pointer is left as it was.
ReleasedPtrKept(d) == d

\* texture->data = NULL
ReleasedPtr(d) == NULL

freeTexture(t) ==
  /\ status = "running"
  /\ files' = files
  /\ libc' = libc
  /\ heap' = Release(heap, tex[t].data)
  /\ tex' = [tex EXCEPT ![t].data = ReleasedPtr(@)]
  /\ status' = IF FreeDefined(tex[t].data) THEN "running" ELSE "ub"
  /\ call' = [NoCall EXCEPT !.op = "free", !.t = t, !.w = tex[t].w, !.h = tex[t].h,
                            !.old = tex[t].data,
                            !.fail = IF FreeDefined(tex[t].data) THEN "none" ELSE "ub"]

(***************************************************************************)
(* The specification: any caller, any order of calls.                      *)
(***************************************************************************)
\* fail in call: "none", "fopen", "alloc" (the two asserts), "trap" (the count
\* left int and the build traps), "ub" (any other undefined behaviour).
Next ==
  \/ \E t \in Textures, d \in DimPairs :
       \E data \in Arrays(FloatBase, d[1], d[2]) : initTexture_f(t, d[1], d[2], data)
  \/ \E t \in Textures, d \in DimPairs :
       \E data \in Arrays(IntBase, d[1], d[2]) : initTexture_i(t, d[1], d[2], data)
  \/ \E t \in Textures, path \in Paths : writeTexture(t, path)
  \/ \E t \in Textures, path \in Paths : readTexture(t, path)
  \/ \E t \in Textures : freeTexture(t)

Spec == Init /\ [][Next]_vars

(***************************************************************************)
(* The caller of the README's testWriteReadTexture, its calls in any       *)
(* order: `texture` ("T") is initialised (from integer samples), written   *)
(* and freed, `loadedTexture` ("T2") is read from a file and freed.  The   *)
(* allocator starts with all its room.                                     *)
(***************************************************************************)
PairInit ==
  /\ tex \in [{"T", "T2"} -> FreshTextures]
  /\ heap = <<>>
  /\ files \in [FilePaths -> InitFiles]
  /\ libc \in [room : {MaxAllocs}, zeroNull : BOOLEAN]
  /\ status = "running"
  /\ call = NoCall

PairNext ==
  \/ \E d \in DimPairs :
       \E data \in Arrays(IntBase, d[1], d[2]) : initTexture_i("T", d[1], d[2], data)
  \/ \E path \in Paths : writeTexture("T", path)
  \/ \E path \in Paths : readTexture("T2", path)
  \/ \E t \in Textures : freeTexture(t)

PairSpec == PairInit /\ [][PairNext]_vars

(***************************************************************************)
(* Vocabulary of the properties.                                           *)
(***************************************************************************)
\* The buffer of a Populated Texture.
Mem(t) == heap[tex[t].data].mem
AllocOps == {"init_f", "init_i", "read"}
CountOps == AllocOps \cup {"write"}
\* The blocks still allocated that no Texture points to.
Leaked == {a \in Addrs : heap[a].live /\ \A t \in Textures : tex[t].data # a}

\* The fields of a text: the runs of characters between commas.
RECURSIVE FieldsOf(_, _)
FieldsOf(text, cur) ==
  IF text = <<>> THEN (IF cur = <<>> THEN <<>> ELSE <<cur>>)
  ELSE IF Head(text) = Comma THEN <<cur>> \o FieldsOf(Tail(text), <<>>)
  ELSE FieldsOf(Tail(text), Append(cur, Head(text)))

\* ds is the decimal numeral of the uint32_t v: digits only, no leading zero.
IsDecimalOf(ds, v) ==
  /\ ds # <<>>
  /\ \A i \in 1..Len(ds) : IsDigit(ds[i])
  /\ Len(ds) > 1 => ds[1] # "0"
  /\ AccDigits([v |-> U32(0, 0), ovf |-> FALSE], ds) = [v |-> v, ovf |-> FALSE]

\* truncate(sample * 4294967295) in exact arithmetic, for a sample m / 2^k in
\* [0, 1] with k <= 8: the three limbs of m * (2^32 - 1), shifted right by k.
TruncScaled(f) ==
  LET k == -f.e
      l0 == ((Limb - 1) * f.m) % Limb
      t1 == (Limb - 1) * f.m + (((Limb - 1) * f.m) \div Limb)
      top == t1
  IN U32(top \div Pow2(k), (((top % Pow2(k)) * Limb) + l0) \div Pow2(k))

ExampleData == <<U32(0, 0), UINT32_MAX, U32(32767, 65535), U32(16383, 65535)>>
ExampleText ==
  <<"2", ",", "2", ",", "0", ",",
    "4", "2", "9", "4", "9", "6", "7", "2", "9", "5", ",",
    "2", "1", "4", "7", "4", "8", "3", "6", "4", "7", ",",
    "1", "0", "7", "3", "7", "4", "1", "8", "2", "3", ",">>

(***************************************************************************)
(* C3.  After initTexture_i returns, the Texture holds the extents passed  *)
(* and a buffer of w * h elements equal, index by index, to the samples    *)
(* passed (no scaling, no reordering), 0 and 4294967295 included.          *)
(***************************************************************************)
C3_IntInitCopies ==
  (call.op = "init_i" /\ status = "running") =>
    LET t == call.t
    IN /\ tex[t].w = call.w
       /\ tex[t].h = call.h
       /\ Populated(t)
       /\ ProductLimbs(call.w, call.h) = U32(0, Len(Mem(t)))
       /\ Len(Mem(t)) = Len(call.ints)
       /\ \A i \in 1..Len(call.ints) : Mem(t)[i] = call.ints[i]

C3_Witness ==
  /\ call.op = "init_i"
  /\ status = "running"
  /\ call.w = 2
  /\ call.h = 2
  /\ call.ints = ExampleData
  /\ Mem(call.t) = ExampleData

(***************************************************************************)
(* C2.  After initTexture_f returns, the extents are those passed and      *)
(* every element is truncate(sample * 4294967295): 1.0 gives 4294967295,   *)
(* 0.5 gives 2147483647, 0.25 gives 1073741823.                            *)
(***************************************************************************)
C2_FloatInitScales ==
  (call.op = "init_f" /\ status = "running") =>
    LET t == call.t
    IN /\ tex[t].w = call.w
       /\ tex[t].h = call.h
       /\ Populated(t)
       /\ Len(Mem(t)) = Len(call.floats)
       /\ \A i \in 1..Len(call.floats) : Mem(t)[i] = TruncScaled(call.floats[i])

(***************************************************************************)
(* C6.  The element count every operation uses is the mathematical         *)
(* product of the extents, never a wrapped or negative value of it (and    *)
(* the evaluation never traps); a Populated Texture's buffer holds exactly *)
(* w * h elements.                                                         *)
(***************************************************************************)
C6_CountIsProduct ==
  /\ (call.op \in CountOps /\ call.fail # "fopen") =>
       /\ call.fail # "trap"
       /\ call.n >= 0
       /\ U32(call.n \div Limb, call.n % Limb) = ProductLimbs(call.w, call.h)
  /\ \A t \in Textures :
       Populated(t) => U32(0, Len(Mem(t))) = ProductLimbs(tex[t].w, tex[t].h)

(***************************************************************************)
(* C7.  With a zero extent, and room in the heap, the initializers and     *)
(* readTexture return normally with a zero-length buffer whatever the      *)
(* allocator answers to a zero-size request, and writeTexture writes the   *)
(* header alone.                                                           *)
(***************************************************************************)
C7_ZeroExtent ==
  LET t == call.t
      zero == call.w = 0 \/ call.h = 0
  IN /\ (call.op \in AllocOps /\ zero /\ call.fail # "fopen" /\ libc.room > 0) =>
          /\ status = "running"
          /\ Populated(t)
          /\ Mem(t) = <<>>
          /\ tex[t].w = call.w
          /\ tex[t].h = call.h
     /\ (call.op = "write" /\ zero /\ call.fail # "fopen" /\ Populated(t)) =>
          /\ status = "running"
          /\ files[call.path].text = HeaderText(call.w, call.h)

(***************************************************************************)
(* C4.  After writeTexture returns on a Populated Texture, the file holds  *)
(* exactly the fields w, h, data[0], ..., data[w*h-1] in that order, each  *)
(* a decimal numeral followed by one comma, and nothing else, whatever the *)
(* file held before; the 2 x 2 example gives the text of the example.      *)
(***************************************************************************)
C4_WriteFormat ==
  (call.op = "write" /\ status = "running" /\ Populated(call.t)) =>
    LET t == call.t
        text == files[call.path].text
        fs == FieldsOf(text, <<>>)
        mem == Mem(t)
    IN /\ files[call.path].exists
       /\ text # <<>>
       /\ text[Len(text)] = Comma
       /\ \A i \in 1..Len(text) : text[i] = Comma \/ IsDigit(text[i])
       /\ Len(fs) = 2 + tex[t].w * tex[t].h
       /\ Len(fs) = 2 + Len(mem)
       /\ IsDecimalOf(fs[1], U32(0, tex[t].w))
       /\ IsDecimalOf(fs[2], U32(0, tex[t].h))
       /\ \A i \in 1..Len(mem) :
            /\ \E v \in ReadElem(mem[i]) : IsDecimalOf(fs[i + 2], v)
            /\ mem[i] # Indet => IsDecimalOf(fs[i + 2], mem[i])
       /\ (tex[t].w = 2 /\ tex[t].h = 2 /\ mem = ExampleData) => text = ExampleText

\* The example Texture has been written.
C4_Witness ==
  /\ call.op = "write"
  /\ status = "running"
  /\ Populated(call.t)
  /\ tex[call.t].w = 2
  /\ tex[call.t].h = 2
  /\ Mem(call.t) = ExampleData
  /\ files[call.path].text = ExampleText

(***************************************************************************)
(* C10.  readTexture takes w and h from the first two fields of the file   *)
(* and parses the next w * h fields into data in file order, ignoring any  *)
(* further field; it checks nothing: on a file with k < w * h data fields  *)
(* it returns normally, with a buffer of w * h elements of which the first *)
(* k are the file's fields and the others were never written.              *)
(***************************************************************************)
C10_ReadParses ==
  (call.op = "read" /\ call.fail \notin {"fopen", "alloc"}) =>
    LET t == call.t
        fs == FieldsOf(files[call.path].text, <<>>)
    IN Len(fs) >= 2 =>
         /\ status = "running"
         /\ Populated(t)
         /\ IsDecimalOf(fs[1], U32(0, tex[t].w))
         /\ IsDecimalOf(fs[2], U32(0, tex[t].h))
         /\ Len(Mem(t)) = tex[t].w * tex[t].h
         /\ \A i \in 1..Len(Mem(t)) :
              IF i + 2 <= Len(fs) THEN IsDecimalOf(fs[i + 2], Mem(t)[i])
              ELSE Mem(t)[i] = Indet

\* The file "2,2,7," is read: four elements, one of them from the file.
C10_Witness ==
  /\ call.op = "read"
  /\ status = "running"
  /\ files[call.path].text = <<"2", ",", "2", ",", "7", ",">>
  /\ tex[call.t].w = 2
  /\ tex[call.t].h = 2
  /\ Mem(call.t) = <<U32(0, 7), Indet, Indet, Indet>>

(***************************************************************************)
(* C5.  freeTexture on a Populated Texture releases its buffer and leaves  *)
(* the Texture Empty; freeTexture on an Empty Texture touches no block,    *)
(* does not fail and leaves it Empty.  No block is released twice.         *)
(***************************************************************************)
C5_FreeIdempotent ==
  /\ [](call.op = "free" /\ call.old # Wild =>
          /\ status = "running"
          /\ Empty(call.t)
          /\ call.old # NULL => ~heap[call.old].live)
  /\ [][call'.op = "free" =>
          LET t == call'.t
              d == tex[t].data
          IN /\ Live(d) =>
                  /\ Len(heap') = Len(heap)
                  /\ ~heap'[d].live
                  /\ \A a \in Addrs \ {d} : heap'[a] = heap[a]
             /\ d = NULL => heap' = heap /\ tex' = tex /\ status' = "running"
             /\ \A a \in Addrs : ~heap[a].live => heap'[a] = heap[a]]_vars

\* freeTexture has been called on a Texture an earlier freeTexture left Empty.
C5_Witness ==
  /\ call.op = "free"
  /\ call.old = NULL
  /\ status = "running"
  /\ Empty(call.t)
  /\ \E a \in Addrs : ~heap[a].live

(***************************************************************************)
(* C8.  A failed allocation and a failed fopen terminate the process: the  *)
(* call never returns, no step follows, so no caller sees a Texture whose  *)
(* extents the failing call stored while its buffer is absent or partly    *)
(* filled; when fopen fails nothing has been modified.                     *)
(***************************************************************************)
C8_FailuresAreFatal ==
  /\ [](call.fail \in {"alloc", "fopen"} => status = "aborted")
  /\ []((status = "running" /\ call.op \in AllocOps) =>
          /\ Populated(call.t)
          /\ Len(Mem(call.t)) = call.n
          /\ tex[call.t].w = call.w
          /\ tex[call.t].h = call.h)
  /\ [][status = "running"]_vars
  /\ [][call'.fail = "fopen" => tex' = tex /\ heap' = heap /\ files' = files]_vars

\* readTexture stored the extents, the allocation failed, the process is gone.
C8_Witness ==
  /\ status = "aborted"
  /\ call.op = "read"
  /\ call.fail = "alloc"
  /\ call.old # NULL
  /\ tex[call.t].data = NULL
  /\ tex[call.t].w = 2

(***************************************************************************)
(* C9.  A block becomes leaked (allocated, with no Texture pointing to it) *)
(* exactly in the steps in which an initializer or readTexture returns on  *)
(* a Texture that was Populated, and it is that Texture's buffer; in every *)
(* other step (initializer or read on an Empty Texture, write, free) the   *)
(* leaked blocks stay as they were, and free releases the buffer.  No      *)
(* Texture points to a released block.                                     *)
(***************************************************************************)
C9_LeakOnlyOnReinit ==
  /\ [](status = "running" =>
          \A t \in Textures : tex[t].data \in Addrs => heap[tex[t].data].live)
  /\ [][status' = "running" =>
          LET t == call'.t
              reinit == call'.op \in AllocOps /\ Populated(t)
          IN /\ Leaked' = Leaked \cup (IF reinit THEN {tex[t].data} ELSE {})
             /\ reinit => tex[t].data \notin Leaked]_vars

\* readTexture has returned on a Texture that was Populated: its buffer is leaked.
C9_Witness ==
  /\ status = "running"
  /\ call.op = "read"
  /\ call.old \in Addrs
  /\ call.old \in Leaked

(***************************************************************************)
(* C1.  writeTexture(T, p) on a Populated T leaves T unchanged, and a      *)
(* readTexture(T2, p) that follows it gives T2 the extents of T and a      *)
(* buffer equal to T's, element by element.                                *)
(***************************************************************************)
C1_RoundTrip ==
  /\ [][call'.op = "write" => tex' = tex /\ heap' = heap]_vars
  /\ [][(/\ call.op = "write"
         /\ call.fail = "none"
         /\ Populated(call.t)
         /\ \A i \in 1..Len(Mem(call.t)) : Mem(call.t)[i] # Indet
         /\ call'.op = "read"
         /\ call'.path = call.path
         /\ call'.fail # "alloc")
        => LET t == call.t
               t2 == call'.t
           IN /\ status' = "running"
              /\ tex'[t2].w = tex[t].w
              /\ tex'[t2].h = tex[t].h
              /\ tex'[t2].data \in 1..Len(heap')
              /\ heap'[tex'[t2].data].live
              /\ heap'[tex'[t2].data].mem = Mem(t)
              /\ t2 # t => (tex'[t] = tex[t] /\ heap'[tex[t].data] = heap[tex[t].data])]_vars

\* The example Texture T was written and read back into T2.
C1_Witness ==
  /\ status = "running"
  /\ call.op = "read"
  /\ call.t = "T2"
  /\ files[call.path].text = ExampleText
  /\ Populated("T")
  /\ Populated("T2")
  /\ tex["T"].data # tex["T2"].data
  /\ tex["T2"].w = 2
  /\ tex["T2"].h = 2
  /\ Mem("T") = ExampleData
  /\ Mem("T2") = ExampleData

====
